---- MODULE Spec2Model ----
(***************************************************************************)
(* Model of the retrieval core of the active-recall study application:    *)
(* the per-collection FAISS index (backend/app/core/rag.py, FAISSIndex)    *)
(* with its two persisted artifacts, <collection>.index and                *)
(* <collection>.metadata, and the embedding validation it relies on        *)
(* (backend/app/core/embed.py).                                            *)
(*                                                                         *)
(* One collection is modelled.  Every index instance is a FAISSIndex       *)
(* object bound to that collection; the two files are shared by all of     *)
(* them.  Spec runs every method as one step and lets _save_index meet an  *)
(* I/O error at each of its statements.  SpecConc runs the methods of      *)
(* several instances interleaved at the granularity of one file            *)
(* operation, with no I/O error.  SpecQuery adds search, get_stats and     *)
(* RAGService.retrieve_relevant_chunks.                                    *)
(*                                                                         *)
(* The functions that keep no state are run on inputs drawn at the start:  *)
(* SpecContext runs RAGService.create_context_from_chunks, SpecChunks      *)
(* TextChunker._create_chunks (backend/app/core/chunk.py) and SpecReview   *)
(* SM2Algorithm.calculate_next_review (backend/app/core/sm2.py).           *)
(* SpecSchedule follows one card from its first review on, through         *)
(* SpacedRepetitionService.update_review_after_answer.                     *)
(***************************************************************************)
EXTENDS Integers, Sequences, FiniteSets, TLC

VARIABLES index, metadata, index_file, metadata_file, last, io_errors, pc,
          succeeded, chunker, context, review

vars == <<index, metadata, index_file, metadata_file, last, io_errors, pc,
          succeeded, chunker, context, review>>

\* the state of the components the index does not touch: the text chunker,
\* the context assembly and the review scheduler
others == <<chunker, context, review>>

(***************************************************************************)
(* Bounds of the model.                                                    *)
(***************************************************************************)
\* settings.faiss_dimension is 768; the model runs the same code on short vectors
faiss_dimension == 2
\* longest embeddings / chunk_metadata list handed to create_index, add_embeddings
MaxBatch == 2
\* add_embeddings is not taken once the index or the metadata list would
\* hold more entries than this
MaxVectors == 2
\* I/O errors _save_index meets in one run
MaxIOErrors == 1
\* most vectors an index that is searched holds
MaxRows == 3
\* largest k handed to search and retrieve_relevant_chunks
MaxK == 5
\* longest content of a search result, in characters
MaxContentChars == 4
\* longest list of results handed to create_context_from_chunks
MaxResults == 3
\* largest max_tokens handed to create_context_from_chunks
MaxTokens == 13
\* settings.chunk_size is 800 tokens and settings.chunk_overlap 150; the
\* model runs the same code on short sections, with chunk_size tokens to the
\* chunk and every overlap setting from 0 to chunk_overlap
chunk_size == 3
chunk_overlap == 1
\* longest section handed to _create_chunks, in characters
MaxSectionChars == 8
\* calculate_next_review is not taken on a card with more repetitions or a
\* longer interval than these
MaxRepetitions == 5
MaxIntervalDays == 45

Instances == {"A", "B"}
\* the instance whose calls Spec runs one after the other
Sequential == {"A"}

Min(a, b) == IF a <= b THEN a ELSE b
Abs(n) == IF n < 0 THEN 0 - n ELSE n

\* the binary logarithm of n rounded down, and the power of two
RECURSIVE Log2(_)
Log2(n) == IF n < 2 THEN 0 ELSE 1 + Log2(n \div 2)

RECURSIVE Pow2(_)
Pow2(n) == IF n = 0 THEN 1 ELSE 2 * Pow2(n - 1)

RECURSIVE GCD(_, _)
GCD(a, b) == IF b = 0 THEN a ELSE GCD(b, a % b)

RECURSIVE SeqGCD(_, _)
SeqGCD(s, k) == IF k = 0 THEN 0 ELSE GCD(Abs(s[k]), SeqGCD(s, k - 1))

(***************************************************************************)
(* Embedding vectors.  A component is a float: finite with a value, or     *)
(* non-finite (NaN, inf).                                                  *)
(***************************************************************************)
Fin(n) == [finite |-> TRUE, val |-> n]
NaN == [finite |-> FALSE, val |-> 0]

Twos == [k \in 1..faiss_dimension |-> Fin(2)]
TooLong == [k \in 1..(faiss_dimension + 1) |-> Fin(1)]
WithNaN == [k \in 1..faiss_dimension |-> IF k = faiss_dimension THEN NaN ELSE Fin(1)]

\* the vectors callers hand in: a valid one, an empty one, a wrong-dimension
\* one and a non-finite one
Embeddings == {Twos, <<>>, TooLong, WithNaN}

\* the metadata records ingest.py builds for the chunks of one document, in
\* chunk order; chunk_id identifies the chunk
ChunkMetadata(n) == [k \in 1..n |-> [chunk_id |-> k]]

SeqsUpTo(S, n) == UNION {[1..k -> S] : k \in 0..n}

\* the argument lists of create_index and add_embeddings
EmbeddingLists == SeqsUpTo(Embeddings, MaxBatch)
MetadataLists == {ChunkMetadata(n) : n \in 0..MaxBatch}

\* EmbeddingService.validate_embedding
validate_embedding(embedding) ==
    IF embedding = <<>> THEN FALSE
    ELSE IF Len(embedding) # faiss_dimension THEN FALSE
    ELSE IF \E k \in 1..Len(embedding) : ~embedding[k].finite THEN FALSE
    ELSE TRUE

\* faiss.normalize_L2 on one row: x / ||x||, the zero vector left as it is.
\* A unit vector is held exactly, as the primitive integer vector of its
\* direction (the row divided by the gcd of its components).
normalize_L2(embedding) ==
    LET x == [k \in 1..Len(embedding) |-> embedding[k].val]
        g == SeqGCD(x, Len(x))
    IN  IF g = 0 THEN x ELSE [k \in 1..Len(x) |-> x[k] \div g]

\* the validation loop of create_index and add_embeddings over
\* zip(embeddings, chunk_metadata), from position k on
\* the loop with valid_metadata.append outside the if
RECURSIVE valid_pairs_keep_all_metadata(_, _, _)
valid_pairs_keep_all_metadata(embeddings, chunk_metadata, k) ==
    IF k > Min(Len(embeddings), Len(chunk_metadata))
    THEN [embeddings |-> <<>>, metadata |-> <<>>]
    ELSE LET rest == valid_pairs_keep_all_metadata(embeddings, chunk_metadata, k + 1)
         IN  IF validate_embedding(embeddings[k])
             THEN [embeddings |-> <<embeddings[k]>> \o rest.embeddings,
                   metadata |-> <<chunk_metadata[k]>> \o rest.metadata]
             ELSE [embeddings |-> rest.embeddings,
                   metadata |-> <<chunk_metadata[k]>> \o rest.metadata]

RECURSIVE valid_pairs(_, _, _)
valid_pairs(embeddings, chunk_metadata, k) ==
    IF k > Min(Len(embeddings), Len(chunk_metadata))
    THEN [embeddings |-> <<>>, metadata |-> <<>>]
    ELSE LET rest == valid_pairs(embeddings, chunk_metadata, k + 1)
         IN  IF validate_embedding(embeddings[k])
             THEN [embeddings |-> <<embeddings[k]>> \o rest.embeddings,
                   metadata |-> <<chunk_metadata[k]>> \o rest.metadata]
             ELSE rest

(***************************************************************************)
(* The in-memory index of one instance: None, or an IndexFlatIP holding    *)
(* rows.  A row is the stored unit vector; `paired` records which metadata *)
(* record was zipped with the vector when it was added (history only: the  *)
(* code keeps it nowhere).                                                 *)
(***************************************************************************)
None == [is_none |-> TRUE, rows |-> <<>>]
IndexFlatIP(rows) == [is_none |-> FALSE, rows |-> rows]

\* embeddings_array after normalize_L2, as handed to index.add
embeddings_array(valid) ==
    [k \in 1..Len(valid.embeddings) |->
        [vec |-> normalize_L2(valid.embeddings[k]), paired |-> valid.metadata[k]]]

ntotal(ix) == Len(ix.rows)

(***************************************************************************)
(* The two persisted artifacts.  A file is absent, present and readable    *)
(* with the data last written to it whole, or present and unreadable       *)
(* (opened for writing, hence truncated, and the write did not finish).    *)
(* faiss.write_index / read_index and pickle.dump / load are library round *)
(* trips: a readable file gives back what was written.                     *)
(***************************************************************************)
Absent == [exists |-> FALSE, readable |-> FALSE, data |-> <<>>]
Truncated == [exists |-> TRUE, readable |-> FALSE, data |-> <<>>]
Written(data) == [exists |-> TRUE, readable |-> TRUE, data |-> data]

\* where _save_index meets an OSError, if anywhere:
\*   "mkdir"          before anything is written
\*   "index_write"    in faiss.write_index, the file opened and cut short
\*   "metadata_open"  in open(metadata_path, 'wb'), after the index was written
\*   "metadata_dump"  in pickle.dump, the metadata file opened and cut short
SaveFaults == {"none", "mkdir", "index_write", "metadata_open", "metadata_dump"}

\* FAISSIndex._save_index: the files it leaves, and its return value
save_index(ix, md, old_index_file, old_metadata_file, fault) ==
    CASE fault = "none" ->
            [index_file |-> Written(ix.rows), metadata_file |-> Written(md), ok |-> TRUE]
      [] fault = "mkdir" ->
            [index_file |-> old_index_file, metadata_file |-> old_metadata_file, ok |-> FALSE]
      [] fault = "index_write" ->
            [index_file |-> Truncated, metadata_file |-> old_metadata_file, ok |-> FALSE]
      [] fault = "metadata_open" ->
            [index_file |-> Written(ix.rows), metadata_file |-> old_metadata_file, ok |-> FALSE]
      [] fault = "metadata_dump" ->
            [index_file |-> Written(ix.rows), metadata_file |-> Truncated, ok |-> FALSE]

(***************************************************************************)
(* The methods of FAISSIndex, each as the outcome of one call: the         *)
(* instance's fields and the two files after it, and its return value.     *)
(***************************************************************************)
Outcome(ix, md, idxf, mdf, ok) ==
    [index |-> ix, metadata |-> md, index_file |-> idxf, metadata_file |-> mdf, ok |-> ok]

\* create_index without its "if not valid_embeddings" return
create_index_no_valid_check(self_index, self_metadata, embeddings, chunk_metadata, idxf, mdf, fault) ==
    LET valid == valid_pairs(embeddings, chunk_metadata, 1)
        new_index == IndexFlatIP(embeddings_array(valid))
        saved == save_index(new_index, valid.metadata, idxf, mdf, fault)
    IN  IF embeddings = <<>>
        THEN Outcome(self_index, self_metadata, idxf, mdf, FALSE)
        ELSE Outcome(new_index, valid.metadata, saved.index_file, saved.metadata_file, TRUE)

\* FAISSIndex.create_index; the value _save_index returns is not looked at
create_index(self_index, self_metadata, embeddings, chunk_metadata, idxf, mdf, fault) ==
    LET valid == valid_pairs(embeddings, chunk_metadata, 1)
        new_index == IndexFlatIP(embeddings_array(valid))
        saved == save_index(new_index, valid.metadata, idxf, mdf, fault)
    IN  IF embeddings = <<>>
        THEN Outcome(self_index, self_metadata, idxf, mdf, FALSE)
        ELSE IF valid.embeddings = <<>>
        THEN Outcome(self_index, self_metadata, idxf, mdf, FALSE)
        ELSE Outcome(new_index, valid.metadata, saved.index_file, saved.metadata_file, TRUE)

\* load_index testing index_path.exists() alone: opening the missing metadata
\* file raises after self.index is assigned
load_index_checks_index_only(self_index, self_metadata, idxf, mdf) ==
    IF ~idxf.exists
    THEN Outcome(self_index, self_metadata, idxf, mdf, FALSE)
    ELSE IF ~idxf.readable
    THEN Outcome(self_index, self_metadata, idxf, mdf, FALSE)
    ELSE IF ~mdf.exists \/ ~mdf.readable
    THEN Outcome(IndexFlatIP(idxf.data), self_metadata, idxf, mdf, FALSE)
    ELSE Outcome(IndexFlatIP(idxf.data), mdf.data, idxf, mdf, TRUE)

\* FAISSIndex.load_index; read_index and pickle.load raise on a file cut short
load_index(self_index, self_metadata, idxf, mdf) ==
    IF ~idxf.exists \/ ~mdf.exists
    THEN Outcome(self_index, self_metadata, idxf, mdf, FALSE)
    ELSE IF ~idxf.readable
    THEN Outcome(self_index, self_metadata, idxf, mdf, FALSE)
    ELSE IF ~mdf.readable
    THEN Outcome(IndexFlatIP(idxf.data), self_metadata, idxf, mdf, FALSE)
    ELSE Outcome(IndexFlatIP(idxf.data), mdf.data, idxf, mdf, TRUE)

\* FAISSIndex.add_embeddings
add_embeddings(self_index, self_metadata, embeddings, chunk_metadata, idxf, mdf, fault) ==
    LET valid == valid_pairs(embeddings, chunk_metadata, 1)
        new_index == IndexFlatIP(self_index.rows \o embeddings_array(valid))
        new_metadata == self_metadata \o valid.metadata
        saved == save_index(new_index, new_metadata, idxf, mdf, fault)
    IN  IF self_index.is_none
        THEN Outcome(self_index, self_metadata, idxf, mdf, FALSE)
        ELSE IF valid.embeddings = <<>>
        THEN Outcome(self_index, self_metadata, idxf, mdf, FALSE)
        ELSE Outcome(new_index, new_metadata, saved.index_file, saved.metadata_file, TRUE)

\* delete_index without its second unlink
delete_index_keeps_metadata_file(self_index, self_metadata, idxf, mdf) ==
    Outcome(self_index, self_metadata, Absent, mdf, TRUE)

\* delete_index that also drops what the instance holds in memory
delete_index_unloads(self_index, self_metadata, idxf, mdf) ==
    Outcome(None, <<>>, Absent, Absent, TRUE)

\* FAISSIndex.delete_index
delete_index(self_index, self_metadata, idxf, mdf) ==
    Outcome(self_index, self_metadata, Absent, Absent, TRUE)

\* whether a call with these arguments gets as far as _save_index
reaches_save(self_index, embeddings, chunk_metadata, op) ==
    /\ op = "add" => ~self_index.is_none
    /\ valid_pairs(embeddings, chunk_metadata, 1).embeddings # <<>>

(***************************************************************************)
(* The state machine.  `last` is the record of the call just made: its     *)
(* arguments, the I/O error it met and its return value.                   *)
(***************************************************************************)
Call(op, i, ok, embeddings, chunk_metadata, fault) ==
    [op |-> op, inst |-> i, ok |-> ok,
     embeddings |-> embeddings, chunk_metadata |-> chunk_metadata, fault |-> fault]

Apply(i, out) ==
    /\ index' = [index EXCEPT ![i] = out.index]
    /\ metadata' = [metadata EXCEPT ![i] = out.metadata]
    /\ index_file' = out.index_file
    /\ metadata_file' = out.metadata_file

Idle == [i \in Instances |-> "idle"]

\* the other components before any call to them
NoSection == [at |-> "none"]
NoContext == [at |-> "none"]
NoReview == [at |-> "none"]

\* FAISSIndex.__init__; no file exists before the first ingest
NoCalls ==
    /\ index = [i \in Instances |-> None]
    /\ metadata = [i \in Instances |-> <<>>]
    /\ index_file = Absent
    /\ metadata_file = Absent
    /\ last = [op |-> "init", inst |-> "A", ok |-> TRUE,
               embeddings |-> <<>>, chunk_metadata |-> <<>>, fault |-> "none"]
    /\ io_errors = 0
    /\ pc = Idle
    /\ succeeded = [i \in Instances |-> FALSE]

Init ==
    /\ NoCalls
    /\ chunker = NoSection
    /\ context = NoContext
    /\ review = NoReview

\* add_embeddings is taken while neither list outgrows the model
HasRoom(ix, md, n) ==
    /\ ntotal(ix) + n <= MaxVectors
    /\ Len(md) + n <= MaxVectors

\* an I/O error happens only where _save_index runs, and MaxIOErrors times
Faulty(fault, saving) ==
    IF fault = "none"
    THEN io_errors' = io_errors
    ELSE saving /\ io_errors < MaxIOErrors /\ io_errors' = io_errors + 1

\* a create_index or load_index that returned True has made instance i loaded
Succeeds(i, ok) ==
    succeeded' = [succeeded EXCEPT ![i] = succeeded[i] \/ ok]

\* a caller constructs a fresh FAISSIndex(collection_id), as every request does
New(i) ==
    /\ index' = [index EXCEPT ![i] = None]
    /\ metadata' = [metadata EXCEPT ![i] = <<>>]
    /\ last' = Call("new", i, TRUE, <<>>, <<>>, "none")
    /\ succeeded' = [succeeded EXCEPT ![i] = FALSE]
    /\ UNCHANGED <<index_file, metadata_file, io_errors, pc, others>>

Create(i) ==
    \E embeddings \in EmbeddingLists,
       chunk_metadata \in MetadataLists,
       fault \in SaveFaults :
        LET out == create_index(index[i], metadata[i], embeddings, chunk_metadata,
                                index_file, metadata_file, fault)
        IN  /\ Faulty(fault, reaches_save(index[i], embeddings, chunk_metadata, "create"))
            /\ Apply(i, out)
            /\ last' = Call("create", i, out.ok, embeddings, chunk_metadata, fault)
            /\ Succeeds(i, out.ok)
            /\ UNCHANGED <<pc, others>>

Load(i) ==
    LET out == load_index(index[i], metadata[i], index_file, metadata_file)
    IN  /\ Apply(i, out)
        /\ last' = Call("load", i, out.ok, <<>>, <<>>, "none")
        /\ Succeeds(i, out.ok)
        /\ UNCHANGED <<io_errors, pc, others>>

Add(i) ==
    \E embeddings \in EmbeddingLists,
       chunk_metadata \in MetadataLists,
       fault \in SaveFaults :
        LET out == add_embeddings(index[i], metadata[i], embeddings, chunk_metadata,
                                  index_file, metadata_file, fault)
        IN  /\ HasRoom(index[i], metadata[i], Len(embeddings))
            /\ Faulty(fault, reaches_save(index[i], embeddings, chunk_metadata, "add"))
            /\ Apply(i, out)
            /\ last' = Call("add", i, out.ok, embeddings, chunk_metadata, fault)
            /\ UNCHANGED <<pc, succeeded, others>>

Delete(i) ==
    LET out == delete_index(index[i], metadata[i], index_file, metadata_file)
    IN  /\ Apply(i, out)
        /\ last' = Call("delete", i, out.ok, <<>>, <<>>, "none")
        /\ UNCHANGED <<io_errors, pc, succeeded, others>>

Next ==
    \E i \in Sequential :
        \/ New(i)
        \/ Create(i)
        \/ Load(i)
        \/ Add(i)
        \/ Delete(i)

Spec == Init /\ [][Next]_vars

(***************************************************************************)
(* The same methods run by several instances at once.  Nothing in rag.py   *)
(* or in its callers takes a lock, so the calls interleave wherever the    *)
(* operating system lets them: between two file operations.  A step is     *)
(* the part of a method up to and including its next file operation;       *)
(* pc[i] is where instance i stands.  An in-memory part (validation,       *)
(* index.add, metadata.extend) is private to the instance and is one step. *)
(***************************************************************************)
\* the lists a concurrent caller hands in: n valid vectors with their metadata
ValidBatch(n) == [embeddings |-> [k \in 1..n |-> Twos], chunk_metadata |-> ChunkMetadata(n)]

Return(i, op, ok) ==
    /\ pc' = [pc EXCEPT ![i] = "idle"]
    /\ last' = [op |-> op, inst |-> i, ok |-> ok, embeddings |-> <<>>,
                chunk_metadata |-> <<>>, fault |-> "none"]
    /\ Succeeds(i, ok /\ op \in {"create", "load"})

\* FAISSIndex.__init__
ConcNew(i) ==
    /\ pc[i] = "idle"
    /\ index' = [index EXCEPT ![i] = None]
    /\ metadata' = [metadata EXCEPT ![i] = <<>>]
    /\ succeeded' = [succeeded EXCEPT ![i] = FALSE]
    /\ UNCHANGED <<index_file, metadata_file, last, io_errors, pc, others>>

\* create_index up to "self.metadata = valid_metadata"
CreateInMemory(i) ==
    /\ pc[i] = "idle"
    /\ \E n \in 1..MaxBatch :
        LET valid == valid_pairs(ValidBatch(n).embeddings, ValidBatch(n).chunk_metadata, 1)
        IN  /\ index' = [index EXCEPT ![i] = IndexFlatIP(embeddings_array(valid))]
            /\ metadata' = [metadata EXCEPT ![i] = valid.metadata]
    /\ pc' = [pc EXCEPT ![i] = "create_write_index"]
    /\ UNCHANGED <<index_file, metadata_file, last, io_errors, succeeded, others>>

\* add_embeddings up to "self.metadata.extend(valid_metadata)"
AddInMemory(i) ==
    /\ pc[i] = "idle"
    /\ ~index[i].is_none
    /\ \E n \in 1..MaxBatch :
        LET valid == valid_pairs(ValidBatch(n).embeddings, ValidBatch(n).chunk_metadata, 1)
        IN  /\ HasRoom(index[i], metadata[i], n)
            /\ index' = [index EXCEPT ![i] = IndexFlatIP(index[i].rows \o embeddings_array(valid))]
            /\ metadata' = [metadata EXCEPT ![i] = metadata[i] \o valid.metadata]
    /\ pc' = [pc EXCEPT ![i] = "add_write_index"]
    /\ UNCHANGED <<index_file, metadata_file, last, io_errors, succeeded, others>>

\* _save_index: faiss.write_index(self.index, index_path)
WriteIndexFile(i) ==
    /\ pc[i] \in {"create_write_index", "add_write_index"}
    /\ index_file' = Written(index[i].rows)
    /\ pc' = [pc EXCEPT ![i] = IF pc[i] = "create_write_index"
                               THEN "create_write_metadata" ELSE "add_write_metadata"]
    /\ UNCHANGED <<index, metadata, metadata_file, last, io_errors, succeeded, others>>

\* _save_index: pickle.dump(self.metadata, f), and the method returns True
WriteMetadataFile(i) ==
    /\ pc[i] \in {"create_write_metadata", "add_write_metadata"}
    /\ metadata_file' = Written(metadata[i])
    /\ Return(i, IF pc[i] = "create_write_metadata" THEN "create" ELSE "add", TRUE)
    /\ UNCHANGED <<index, metadata, index_file, io_errors, others>>

\* load_index: the two exists() tests
LoadCheckFiles(i) ==
    /\ pc[i] = "idle"
    /\ IF ~index_file.exists \/ ~metadata_file.exists
       THEN Return(i, "load", FALSE)
       ELSE /\ pc' = [pc EXCEPT ![i] = "load_read_index"]
            /\ UNCHANGED <<last, succeeded>>
    /\ UNCHANGED <<index, metadata, index_file, metadata_file, io_errors, others>>

\* load_index: self.index = faiss.read_index(index_path); a file deleted in
\* the meantime raises and the method returns False
LoadReadIndex(i) ==
    /\ pc[i] = "load_read_index"
    /\ IF index_file.exists /\ index_file.readable
       THEN /\ index' = [index EXCEPT ![i] = IndexFlatIP(index_file.data)]
            /\ pc' = [pc EXCEPT ![i] = "load_read_metadata"]
            /\ UNCHANGED <<last, succeeded>>
       ELSE /\ Return(i, "load", FALSE)
            /\ UNCHANGED index
    /\ UNCHANGED <<metadata, index_file, metadata_file, io_errors, others>>

\* load_index: self.metadata = pickle.load(f), and the method returns
LoadReadMetadata(i) ==
    /\ pc[i] = "load_read_metadata"
    /\ IF metadata_file.exists /\ metadata_file.readable
       THEN /\ metadata' = [metadata EXCEPT ![i] = metadata_file.data]
            /\ Return(i, "load", TRUE)
       ELSE /\ Return(i, "load", FALSE)
            /\ UNCHANGED metadata
    /\ UNCHANGED <<index, index_file, metadata_file, io_errors, others>>

\* delete_index: if index_path.exists(): index_path.unlink(), the test and
\* the unlink taken together
DeleteIndexFile(i) ==
    /\ pc[i] = "idle"
    /\ index_file' = Absent
    /\ pc' = [pc EXCEPT ![i] = "delete_metadata"]
    /\ UNCHANGED <<index, metadata, metadata_file, last, io_errors, succeeded, others>>

\* delete_index: if metadata_path.exists(): metadata_path.unlink(), return True
DeleteMetadataFile(i) ==
    /\ pc[i] = "delete_metadata"
    /\ metadata_file' = Absent
    /\ Return(i, "delete", TRUE)
    /\ UNCHANGED <<index, metadata, index_file, io_errors, others>>

NextConc ==
    \E i \in Instances :
        \/ ConcNew(i)
        \/ CreateInMemory(i)
        \/ AddInMemory(i)
        \/ WriteIndexFile(i)
        \/ WriteMetadataFile(i)
        \/ LoadCheckFiles(i)
        \/ LoadReadIndex(i)
        \/ LoadReadMetadata(i)
        \/ DeleteIndexFile(i)
        \/ DeleteMetadataFile(i)

SpecConc == Init /\ [][NextConc]_vars

(***************************************************************************)
(* Searching.  SpecQuery runs the methods of one instance one after the    *)
(* other, as Spec does, over vectors that point in different directions,   *)
(* and adds search, get_stats and RAGService.retrieve_relevant_chunks.     *)
(***************************************************************************)
\* valid vectors: along the first axis, against it, and the diagonal
Axis == [k \in 1..faiss_dimension |-> Fin(IF k = 1 THEN 1 ELSE 0)]
Opposite == [k \in 1..faiss_dimension |-> Fin(IF k = 1 THEN 0 - 1 ELSE 0)]

\* what get_single_embedding hands to search: a valid vector, a non-finite
\* one, or nothing
QueryEmbeddings == {Axis, WithNaN, <<>>}

\* the embeddings of the chunks of the documents ingested, all valid: one
\* document of every length, its chunks pointing in turn along the diagonal, against the axis and along it
DocumentEmbeddings ==
    {[c \in 1..n |-> IF (c + n) % 3 = 0 THEN Twos
                     ELSE IF (c + n) % 3 = 1 THEN Opposite ELSE Axis] : n \in 1..MaxBatch}

\* the values of k callers pass: the smallest and the largest
Ks == {1, MaxK}

RECURSIVE Dot(_, _, _)
Dot(x, y, k) == IF k = 0 THEN 0 ELSE x[k] * y[k] + Dot(x, y, k - 1)

Sign(n) == IF n > 0 THEN 1 ELSE IF n < 0 THEN 0 - 1 ELSE 0

\* the inner product of the unit vectors along q and r, held exactly as
\* num / sqrt(den): the cosine of the angle between them
InnerProduct(q, r) ==
    [num |-> Dot(q, r, Len(q)), den |-> Dot(q, q, Len(q)) * Dot(r, r, Len(r))]

\* a.num / sqrt(a.den) >= b.num / sqrt(b.den); a zero vector scores 0
ScoreGE(a, b) ==
    LET ad == IF a.den = 0 THEN 1 ELSE a.den
        bd == IF b.den = 0 THEN 1 ELSE b.den
    IN  Sign(a.num) * a.num * a.num * bd >= Sign(b.num) * b.num * b.num * ad

\* IndexFlatIP.search(query_array, kk): the labels of kk rows of largest
\* inner product with the query, best first; rows of equal score come in an
\* order the library chooses
FlatSearch(rows, q, kk) ==
    {labels \in [1..kk -> 1..Len(rows)] :
        /\ \A a, b \in 1..kk : a # b => labels[a] # labels[b]
        /\ \A a \in 1..kk : a < kk =>
             ScoreGE(InnerProduct(q, rows[labels[a]].vec), InnerProduct(q, rows[labels[a + 1]].vec))
        /\ \A r \in 1..Len(rows) : (\A a \in 1..kk : labels[a] # r) =>
             \A a \in 1..kk :
                ScoreGE(InnerProduct(q, rows[labels[a]].vec), InnerProduct(q, rows[r].vec))}

\* the result list search builds from the labels: those with idx < len(metadata)
RECURSIVE format_results(_, _, _, _, _)
format_results(rows, self_metadata, q, labels, a) ==
    IF a > Len(labels) THEN <<>>
    ELSE LET idx == labels[a]
             rest == format_results(rows, self_metadata, q, labels, a + 1)
         IN  IF idx <= Len(self_metadata)
             THEN <<[chunk_id |-> self_metadata[idx].chunk_id,
                     score |-> InnerProduct(q, rows[idx].vec),
                     row |-> idx,
                     metadata |-> self_metadata[idx]]>> \o rest
             ELSE rest

\* search returning every row, whatever k
search_ignores_k(self_index, self_metadata, query_embedding, k, labels) ==
    IF self_index.is_none THEN <<>>
    ELSE IF ~validate_embedding(query_embedding) THEN <<>>
    ELSE LET q == normalize_L2(query_embedding)
             all == CHOOSE l \in FlatSearch(self_index.rows, q, ntotal(self_index)) : TRUE
         IN  format_results(self_index.rows, self_metadata, q, all, 1)

\* FAISSIndex.search; labels is what index.search returned.  faiss refuses
\* k = 0, and the method returns [] on the exception
search(self_index, self_metadata, query_embedding, k, labels) ==
    IF self_index.is_none THEN <<>>
    ELSE IF ~validate_embedding(query_embedding) THEN <<>>
    ELSE IF Min(k, ntotal(self_index)) <= 0 THEN <<>>
    ELSE format_results(self_index.rows, self_metadata,
                        normalize_L2(query_embedding), labels, 1)

\* the labels index.search may return to a search call with these arguments
SearchLabels(self_index, query_embedding, k) ==
    IF self_index.is_none \/ ~validate_embedding(query_embedding)
       \/ Min(k, ntotal(self_index)) <= 0
    THEN {<<>>}
    ELSE FlatSearch(self_index.rows, normalize_L2(query_embedding),
                    Min(k, ntotal(self_index)))

\* FAISSIndex.get_stats
get_stats(self_index, self_metadata) ==
    IF self_index.is_none
    THEN [status |-> "not_loaded", total_vectors |-> 0, metadata_count |-> 0]
    ELSE [status |-> "loaded", total_vectors |-> ntotal(self_index),
          metadata_count |-> Len(self_metadata)]

\* retrieve_relevant_chunks that does not look at what load_index returned
\* and searches whatever the .index file gave
retrieve_ignores_load_failure(query_embedding, idxf, mdf, k, labels) ==
    IF query_embedding = <<>> \/ ~idxf.readable THEN <<>>
    ELSE search_ignores_k(IndexFlatIP(idxf.data),
                          [r \in 1..Len(idxf.data) |-> idxf.data[r].paired],
                          query_embedding, k, labels)

\* RAGService.retrieve_relevant_chunks on a fresh FAISSIndex(collection_id)
retrieve_relevant_chunks(query_embedding, idxf, mdf, k, labels) ==
    LET loaded == load_index(None, <<>>, idxf, mdf)
    IN  IF query_embedding = <<>> THEN <<>>
        ELSE IF ~loaded.ok THEN <<>>
        ELSE search(loaded.index, loaded.metadata, query_embedding, k, labels)

\* the record of a call that asks and changes nothing
Query(op, i, query_embedding, k, results) ==
    [op |-> op, inst |-> i, ok |-> TRUE, embeddings |-> <<query_embedding>>,
     chunk_metadata |-> <<>>, fault |-> "none", k |-> k, results |-> results]

\* ingest_content: create_index with the embeddings of a document's chunks
Ingest(i) ==
    \E embeddings \in DocumentEmbeddings, fault \in SaveFaults :
        LET chunk_metadata == ChunkMetadata(Len(embeddings))
            out == create_index(index[i], metadata[i], embeddings, chunk_metadata,
                                index_file, metadata_file, fault)
        IN  /\ Faulty(fault, TRUE)
            /\ Apply(i, out)
            /\ last' = Call("create", i, out.ok, embeddings, chunk_metadata, fault)
            /\ Succeeds(i, out.ok)
            /\ UNCHANGED <<pc, others>>

\* add_embeddings with the embeddings of more chunks, the save meeting no error
AddEmbeddings(i) ==
    \E embeddings \in DocumentEmbeddings :
        LET chunk_metadata == ChunkMetadata(Len(embeddings))
            out == add_embeddings(index[i], metadata[i], embeddings, chunk_metadata,
                                  index_file, metadata_file, "none")
        IN  /\ ntotal(index[i]) + Len(embeddings) <= MaxRows
            /\ Len(metadata[i]) + Len(embeddings) <= MaxRows
            /\ Apply(i, out)
            /\ last' = Call("add", i, out.ok, embeddings, chunk_metadata, "none")
            /\ UNCHANGED <<io_errors, pc, succeeded, others>>

Search(i) ==
    \E query_embedding \in QueryEmbeddings, k \in Ks :
        \E labels \in SearchLabels(index[i], query_embedding, k) :
            /\ last' = Query("search", i, query_embedding, k,
                             search(index[i], metadata[i], query_embedding, k, labels))
            /\ UNCHANGED <<index, metadata, index_file, metadata_file, io_errors, pc,
                           succeeded, others>>

Stats(i) ==
    /\ last' = Query("stats", i, <<>>, 0, get_stats(index[i], metadata[i]))
    /\ UNCHANGED <<index, metadata, index_file, metadata_file, io_errors, pc,
                   succeeded, others>>

\* retrieve_relevant_chunks builds its own FAISSIndex and drops it on return
Retrieve ==
    \E query_embedding \in QueryEmbeddings, k \in Ks :
        LET loaded == load_index(None, <<>>, index_file, metadata_file)
        IN  \E labels \in SearchLabels(IF loaded.ok THEN loaded.index ELSE None,
                                       query_embedding, k) :
                /\ last' = Query("retrieve", "B", query_embedding, k,
                                 retrieve_relevant_chunks(query_embedding, index_file,
                                                          metadata_file, k, labels))
                /\ UNCHANGED <<index, metadata, index_file, metadata_file, io_errors, pc,
                               succeeded, others>>

NextQuery ==
    \/ \E i \in Sequential :
        \/ New(i)
        \/ Ingest(i)
        \/ AddEmbeddings(i)
        \/ Load(i)
        \/ Delete(i)
        \/ Search(i)
        \/ Stats(i)
    \/ Retrieve

SpecQuery == Init /\ [][NextQuery]_vars

(***************************************************************************)
(* Context assembly: RAGService.create_context_from_chunks.  A string is   *)
(* the sequence of its characters.  The estimate len(text.split()) * 1.3   *)
(* and the running total are doubles.  Each is near a whole number of      *)
(* tenths, and is held as that number with its distance from it, the       *)
(* distance counted in units of 2^-52 / 10.                                *)
(***************************************************************************)
IsSpace(c) == c \in {" ", "\n"}

\* len(text.split()): the runs of characters that are not white space
word_count(text) ==
    Cardinality({p \in 1..Len(text) :
                    ~IsSpace(text[p]) /\ (p = 1 \/ IsSpace(text[p - 1]))})

\* text.rsplit(' ', 1)[0]: what stands before the last blank, or all of it
rsplit_head(text) ==
    LET blanks == {p \in 1..Len(text) : text[p] = " "}
    IN  IF blanks = {} THEN text
        ELSE SubSeq(text, 1, (CHOOSE p \in blanks : \A o \in blanks : o <= p) - 1)

\* the per-chunk trim of content to per_chunk_max_chars
trim_content(content, per_chunk_max_chars) ==
    IF Len(content) > per_chunk_max_chars
    THEN rsplit_head(SubSeq(content, 1, per_chunk_max_chars)) \o <<".", ".", ".">>
    ELSE content

\* chunk_text: "## {heading}\n{content}\n", or "{content}\n" without heading
chunk_text(chunk, per_chunk_max_chars) ==
    LET content == trim_content(chunk.content, per_chunk_max_chars)
    IN  IF chunk.heading # <<>>
        THEN <<"#", "#", " ">> \o chunk.heading \o <<"\n">> \o content \o <<"\n">>
        ELSE content \o <<"\n">>

\* the double tenths/10 + err * 2^-52 / 10
Double(tenths, err) == [tenths |-> tenths, err |-> err]

\* n * 2^bits modulo `modulus`
RECURSIVE shifted(_, _, _)
shifted(n, bits, modulus) ==
    IF bits = 0 THEN n % modulus ELSE shifted((2 * n) % modulus, bits - 1, modulus)

\* the double nearest to tenths/10 + err * 2^-52 / 10, ties to the even
\* significand.  With 2^E the power of two at or below the number, doubles
\* lie 2^(E-52) apart, which is `spacing` units.
round_double(tenths, err) ==
    IF tenths = 0 THEN Double(0, 0)
    ELSE LET spacing == 10 * Pow2(Log2(tenths \div 10))
             at == shifted(tenths, 52, 2 * spacing)
             above == (at + err) % spacing
             low == err - above
         IN  IF 2 * above < spacing THEN Double(tenths, low)
             ELSE IF 2 * above > spacing THEN Double(tenths, low + spacing)
             ELSE IF (at + low) % (2 * spacing) # 0 THEN Double(tenths, low + spacing)
             ELSE Double(tenths, low)

\* len(chunk_text.split()) * 1.3, the literal 1.3 being the double nearest to it
estimate_tokens(words) ==
    round_double(13 * words, words * round_double(13, 0).err)

\* x + y of two doubles
double_add(x, y) == round_double(x.tenths + y.tenths, x.err + y.err)

\* x > n for a double x and an integer n
double_gt(x, n) == x.tenths > 10 * n \/ (x.tenths = 10 * n /\ x.err > 0)

\* the loop over chunks from position j on: context_parts
RECURSIVE context_parts(_, _, _, _, _)
context_parts(chunks, j, current_tokens, max_tokens, per_chunk_max_chars) ==
    IF j > Len(chunks) THEN <<>>
    ELSE LET text == chunk_text(chunks[j], per_chunk_max_chars)
             chunk_tokens == estimate_tokens(word_count(text))
         IN  IF double_gt(double_add(current_tokens, chunk_tokens), max_tokens)
             THEN <<>>
             ELSE <<text>> \o context_parts(chunks, j + 1,
                                            double_add(current_tokens, chunk_tokens),
                                            max_tokens, per_chunk_max_chars)

\* "\n---\n".join(parts)
RECURSIVE join(_, _)
join(parts, j) ==
    IF j > Len(parts) THEN <<>>
    ELSE IF j = Len(parts) THEN parts[j]
    ELSE parts[j] \o <<"\n", "-", "-", "-", "\n">> \o join(parts, j + 1)

\* RAGService.create_context_from_chunks
create_context_from_chunks(chunks, max_tokens, per_chunk_max_chars) ==
    join(context_parts(chunks, 1, Double(0, 0), max_tokens, per_chunk_max_chars), 1)

\* contents of chunks: words of letters with single blanks between them
Contents ==
    {c \in UNION {[1..n -> {"a", " "}] : n \in 1..MaxContentChars} :
        /\ c[1] # " "
        /\ c[Len(c)] # " "
        /\ \A p \in 1..(Len(c) - 1) : ~(c[p] = " " /\ c[p + 1] = " ")}

\* the results search hands over, as far as the assembly reads them
Results == [content : Contents, heading : {<<>>, <<"h">>}]

ContextCalls ==
    [at : {"called"},
     chunks : SeqsUpTo(Results, MaxResults),
     max_tokens : 0..MaxTokens,
     per_chunk_max_chars : {2, MaxContentChars},
     result : {<<>>}]

InitContext ==
    /\ NoCalls
    /\ chunker = NoSection
    /\ review = NoReview
    /\ context \in ContextCalls

CreateContext ==
    /\ context.at = "called"
    /\ context' = [context EXCEPT
                     !.at = "returned",
                     !.result = create_context_from_chunks(context.chunks, context.max_tokens,
                                                           context.per_chunk_max_chars)]
    /\ UNCHANGED <<index, metadata, index_file, metadata_file, last, io_errors, pc,
                   succeeded, chunker, review>>

NextContext == CreateContext

SpecContext == InitContext /\ [][NextContext]_vars

(***************************************************************************)
(* The chunker: TextChunker._create_chunks and what it calls.  A text is   *)
(* the sequence of its characters: the letter "a", the full stop, the      *)
(* blank and the line feed.                                                *)
(*                                                                         *)
(* encode is the cl100k_base encoding as far as it cuts a text into        *)
(* pieces: a run of letters with at most one blank or full stop before     *)
(* it; a run of full stops with at most one blank before it and the line   *)
(* feeds after it; white space.  Every piece counts as one token (a run    *)
(* of letters stands for a word of the vocabulary), and decode joins the   *)
(* pieces back.                                                            *)
(***************************************************************************)
IsLetter(c) == c = "a"

\* the last position of the run of characters of S that starts at p
RECURSIVE RunEnd(_, _, _)
RunEnd(text, p, S) ==
    IF p < Len(text) /\ text[p + 1] \in S THEN RunEnd(text, p + 1, S) ELSE p

\* the last position of the piece that starts at p
piece_end(text, p) ==
    LET next_is(S) == p < Len(text) /\ text[p + 1] \in S
        stops(q) == LET d == RunEnd(text, q, {"."})
                    IN  IF d < Len(text) /\ text[d + 1] = "\n"
                        THEN RunEnd(text, d + 1, {"\n"}) ELSE d
        w == RunEnd(text, p, {" ", "\n"})
        feeds == {q \in p..w : text[q] = "\n"}
    IN  IF IsLetter(text[p]) THEN RunEnd(text, p, {"a"})
        ELSE IF text[p] \in {".", " "} /\ next_is({"a"}) THEN RunEnd(text, p + 1, {"a"})
        ELSE IF text[p] = "." THEN stops(p)
        ELSE IF text[p] = " " /\ next_is({"."}) THEN stops(p + 1)
        ELSE IF feeds # {} THEN CHOOSE q \in feeds : \A o \in feeds : o <= q
        ELSE IF w = Len(text) THEN w
        ELSE IF w > p THEN w - 1
        ELSE w

\* self.encoding.encode(text), from position p on: the tokens, each as its text
RECURSIVE encode(_, _)
encode(text, p) ==
    IF p > Len(text) THEN <<>>
    ELSE <<SubSeq(text, p, piece_end(text, p))>> \o encode(text, piece_end(text, p) + 1)

\* self.encoding.decode(tokens)
RECURSIVE decode(_, _)
decode(tokens, j) ==
    IF j > Len(tokens) THEN <<>> ELSE tokens[j] \o decode(tokens, j + 1)

\* TextChunker.count_tokens
count_tokens(text) == Len(encode(text, 1))

\* str.strip()
strip(text) ==
    LET solid == {p \in 1..Len(text) : ~IsSpace(text[p])}
    IN  IF solid = {} THEN <<>>
        ELSE SubSeq(text, CHOOSE p \in solid : \A o \in solid : p <= o,
                          CHOOSE p \in solid : \A o \in solid : o <= p)

\* re.split(r'(?<=[.!?])\s+', text) from position p on: the text is cut at
\* every run of white space that follows a full stop
RECURSIVE re_split(_, _)
re_split(text, p) ==
    LET cuts == {q \in p..Len(text) : q > 1 /\ IsSpace(text[q]) /\ text[q - 1] = "."}
    IN  IF cuts = {} THEN <<SubSeq(text, p, Len(text))>>
        ELSE LET q == CHOOSE c \in cuts : \A o \in cuts : c <= o
             IN  <<SubSeq(text, p, q - 1)>>
                 \o re_split(text, RunEnd(text, q, {" ", "\n"}) + 1)

\* [s.strip() for s in sentences if s.strip()]
RECURSIVE stripped(_, _)
stripped(pieces, j) ==
    IF j > Len(pieces) THEN <<>>
    ELSE IF strip(pieces[j]) = <<>> THEN stripped(pieces, j + 1)
    ELSE <<strip(pieces[j])>> \o stripped(pieces, j + 1)

\* TextChunker._split_into_sentences
split_into_sentences(text) == stripped(re_split(text, 1), 1)

\* tokens[-n:]; with n = 0 the slice is the whole list
last_tokens(tokens, n) ==
    IF n = 0 \/ n >= Len(tokens) THEN tokens
    ELSE SubSeq(tokens, Len(tokens) - n + 1, Len(tokens))

\* _create_overlap taking the first chunk_overlap tokens instead of the last
create_overlap_from_start(text) ==
    LET tokens == encode(text, 1)
    IN  IF Len(tokens) <= chunker.chunk_overlap THEN text \o <<" ">>
        ELSE decode(SubSeq(tokens, 1, chunker.chunk_overlap), 1) \o <<" ">>

\* TextChunker._create_overlap; self.chunk_overlap is the chunker's setting
create_overlap(text) ==
    LET tokens == encode(text, 1)
    IN  IF Len(tokens) <= chunker.chunk_overlap THEN text \o <<" ">>
        ELSE decode(last_tokens(tokens, chunker.chunk_overlap), 1) \o <<" ">>

\* a chunk record, without the caller's metadata
Chunk(chunk_index, content, heading, token_count) ==
    [chunk_index |-> chunk_index, content |-> content, heading |-> heading,
     token_count |-> token_count]

\* a chunk closed by _split_section, with a record of the buffer it was cut
\* from and of the overlap carried into the next chunk
Closed(chunk, current_chunk) ==
    chunk @@ [buffer |-> current_chunk, overlap |-> create_overlap(current_chunk)]

\* the loop of _split_section over sentences from position j on, and the
\* final chunk after it
RECURSIVE split_loop(_, _, _, _, _, _)
split_loop(sentences, j, current_chunk, current_tokens, chunk_index, heading) ==
    IF j > Len(sentences)
    THEN IF strip(current_chunk) # <<>>
         THEN <<Chunk(chunk_index, strip(current_chunk), heading, current_tokens)>>
         ELSE <<>>
    ELSE LET sentence == sentences[j]
             sentence_tokens == count_tokens(sentence)
         IN  IF current_tokens + sentence_tokens > chunk_size /\ current_chunk # <<>>
             THEN <<Closed(Chunk(chunk_index, strip(current_chunk), heading,
                                 current_tokens), current_chunk)>>
                  \o split_loop(sentences, j + 1,
                                create_overlap(current_chunk) \o sentence,
                                count_tokens(create_overlap(current_chunk) \o sentence),
                                chunk_index + 1, heading)
             ELSE split_loop(sentences, j + 1, current_chunk \o sentence,
                             current_tokens + sentence_tokens, chunk_index, heading)

\* _split_section numbering its chunks from 0 whatever start_index is
split_section_from_zero(section, start_index) ==
    split_loop(split_into_sentences(section.content), 1, <<>>, 0, 0, section.heading)

\* TextChunker._split_section
split_section(section, start_index) ==
    split_loop(split_into_sentences(section.content), 1, <<>>, 0, start_index,
               section.heading)

\* TextChunker._create_chunks, from section j on
RECURSIVE create_chunks(_, _, _)
create_chunks(sections, j, chunk_index) ==
    IF j > Len(sections) THEN <<>>
    ELSE LET section_text == sections[j].content
             section_tokens == count_tokens(section_text)
         IN  IF section_tokens <= chunk_size
             THEN <<Chunk(chunk_index, strip(section_text), sections[j].heading,
                          section_tokens)>>
                  \o create_chunks(sections, j + 1, chunk_index + 1)
             ELSE LET section_chunks == split_section(sections[j], chunk_index)
                  IN  section_chunks
                      \o create_chunks(sections, j + 1, chunk_index + Len(section_chunks))

\* the content _identify_sections gives a section: its lines, each stripped,
\* not empty, with single blanks, and followed by a line feed
SectionTexts(n) ==
    {t \in UNION {[1..m -> {"a", ".", " ", "\n"}] : m \in 2..n} :
        /\ ~IsSpace(t[1])
        /\ t[Len(t)] = "\n"
        /\ \A p \in 1..(Len(t) - 1) : ~(IsSpace(t[p]) /\ IsSpace(t[p + 1]))}

\* the sections of a document: one section, or one with a short section
\* after it or before it
Documents ==
    {<<[heading |-> 1, content |-> t]>> : t \in SectionTexts(MaxSectionChars)}
    \cup {<<[heading |-> 1, content |-> t], [heading |-> 2, content |-> u]>> :
            t \in SectionTexts(MaxSectionChars), u \in SectionTexts(2)}
    \cup {<<[heading |-> 1, content |-> u], [heading |-> 2, content |-> t]>> :
            t \in SectionTexts(MaxSectionChars), u \in SectionTexts(2)}

InitChunks ==
    /\ NoCalls
    /\ context = NoContext
    /\ review = NoReview
    /\ chunker \in [at : {"called"}, chunk_overlap : 0..chunk_overlap,
                     sections : Documents, chunks : {<<>>}]

CreateChunks ==
    /\ chunker.at = "called"
    /\ chunker' = [chunker EXCEPT !.at = "returned",
                                  !.chunks = create_chunks(chunker.sections, 1, 0)]
    /\ UNCHANGED <<index, metadata, index_file, metadata_file, last, io_errors, pc,
                   succeeded, context, review>>

NextChunks == CreateChunks

SpecChunks == InitChunks /\ [][NextChunks]_vars

(***************************************************************************)
(* The review scheduler: SM2Algorithm.calculate_next_review.  An easiness  *)
(* factor is held in hundredths (2.5 is 250), which is what round(x, 2)    *)
(* keeps of it: the double nearest to that decimal.  The decimal is rarely *)
(* a double itself, so the product interval_days * new_easiness is taken   *)
(* with the rounding of double arithmetic.                                 *)
(***************************************************************************)
min_easiness == 130
max_easiness == 300
initial_interval == 1
initial_easiness == 250

SM2Parameters(repetitions, interval_days, easiness_factor) ==
    [repetitions |-> repetitions, interval_days |-> interval_days,
     easiness_factor |-> easiness_factor]

Max(a, b) == IF a >= b THEN a ELSE b

\* _calculate_easiness_factor without the clamp to [min_easiness, max_easiness]
calculate_easiness_factor_unclamped(quality, current_easiness) ==
    current_easiness + (10 - (5 - quality) * (8 + (5 - quality) * 2))

\* SM2Algorithm._calculate_easiness_factor
calculate_easiness_factor(quality, current_easiness) ==
    LET new_easiness == current_easiness
                        + (10 - (5 - quality) * (8 + (5 - quality) * 2))
    IN  Max(min_easiness, Min(max_easiness, new_easiness))

\* the binary exponent of an easiness factor e/100 in [1, 4)
float_exponent(e) == IF e < 200 THEN 0 ELSE 1

\* what is left of rem/100 after `bits` more binary digits of its expansion
RECURSIVE division_remainder(_, _)
division_remainder(rem, bits) ==
    IF bits = 0 THEN rem ELSE division_remainder((2 * rem) % 100, bits - 1)

\* the double that holds e/100 minus e/100, in hundredths of a unit in the
\* last place of the double: the 53-bit significand is rounded to nearest
float_error(e) ==
    LET rem == division_remainder(e % 100, 52 - float_exponent(e))
    IN  IF 2 * rem < 100 THEN 0 - rem ELSE 100 - rem

\* int(interval_days * easiness) in double arithmetic.  The product is off
\* the decimal one by interval_days times the error of the easiness, far
\* less than 1/100, so it matters only when the decimal product is a whole
\* number N and the error is negative: the product then rounds to N, or to
\* the double below N when it lies nearer to that one, and int() gives N - 1.
int_of_product(interval_days, easiness) ==
    LET N == (interval_days * easiness) \div 100
        err == float_error(easiness)
        k == IF N = Pow2(Log2(N)) THEN Log2(N) - 1 ELSE Log2(N)
    IN  IF (interval_days * easiness) % 100 # 0 \/ err >= 0 THEN N
        ELSE IF interval_days * (0 - err) * Pow2(float_exponent(easiness) + 2)
                  > 100 * Pow2(k + 1)
        THEN N - 1
        ELSE N

\* calculate_next_review whose reset starts the easiness factor over as well
calculate_next_review_resets_easiness(quality, current_params) ==
    SM2Parameters(0, initial_interval, initial_easiness)

\* SM2Algorithm.calculate_next_review; a quality off the 0..5 scale raises
\* ValueError inside the try, and the except returns the fallback
calculate_next_review(quality, current_params) ==
    IF ~(0 <= quality /\ quality <= 5)
    THEN SM2Parameters(0, 1, initial_easiness)
    ELSE IF quality < 3
    THEN SM2Parameters(0, initial_interval, current_params.easiness_factor)
    ELSE LET new_easiness == calculate_easiness_factor(quality, current_params.easiness_factor)
             new_repetitions == current_params.repetitions + 1
             new_interval == IF new_repetitions = 1 THEN 1
                             ELSE IF new_repetitions = 2 THEN 6
                             ELSE int_of_product(current_params.interval_days, new_easiness)
         IN  SM2Parameters(new_repetitions, new_interval, new_easiness)

\* the qualities a caller may pass: the scale, and one value off either end
Qualities == (0 - 1)..6

\* the cards calculate_next_review is called on
ReviewParams ==
    {SM2Parameters(r, d, e) : r \in 0..MaxRepetitions,
                              d \in {1, 6, 30, MaxIntervalDays},
                              e \in {min_easiness, initial_easiness, 280, max_easiness}}

InitReview ==
    /\ NoCalls
    /\ chunker = NoSection
    /\ context = NoContext
    /\ review \in {[reviewed |-> FALSE, quality |-> 0, previous |-> c, params |-> c] :
                     c \in ReviewParams}

CalculateNextReview ==
    /\ review.params.repetitions <= MaxRepetitions
    /\ review.params.interval_days <= MaxIntervalDays
    /\ \E quality \in Qualities :
         review' = [reviewed |-> TRUE, quality |-> quality, previous |-> review.params,
                    params |-> calculate_next_review(quality, review.params)]
    /\ UNCHANGED <<index, metadata, index_file, metadata_file, last, io_errors, pc,
                   succeeded, chunker, context>>

NextReview == CalculateNextReview

SpecReview == InitReview /\ [][NextReview]_vars

(***************************************************************************)
(* A card's life: SpacedRepetitionService.update_review_after_answer       *)
(* applied again and again to the parameters it returned, from the         *)
(* parameters SM2Parameters() gives a new card.  A score is held in        *)
(* hundredths, or is not a number.                                         *)
(***************************************************************************)
\* SM2Algorithm.quality_from_score; every comparison with NaN is false
quality_from_score(score) ==
    IF score.finite /\ score.val >= 90 THEN 5
    ELSE IF score.finite /\ score.val >= 80 THEN 4
    ELSE IF score.finite /\ score.val >= 60 THEN 3
    ELSE IF score.finite /\ score.val >= 40 THEN 2
    ELSE IF score.finite /\ score.val >= 20 THEN 1
    ELSE 0

\* SpacedRepetitionService.update_review_after_answer
update_review_after_answer(current_params, score) ==
    calculate_next_review(quality_from_score(score), current_params)

\* the scores of answers: both sides of every threshold, the ends of the
\* scale, values off the scale, and NaN
Scores ==
    {Fin(v) : v \in {0 - 50, 0, 19, 20, 39, 40, 59, 60, 79, 80, 89, 90, 100, 150}}
    \cup {NaN}

\* SM2Parameters(): the defaults of the dataclass
InitSchedule ==
    /\ NoCalls
    /\ chunker = NoSection
    /\ context = NoContext
    /\ review = [reviewed |-> FALSE, quality |-> 0,
                 previous |-> SM2Parameters(0, 1, 250),
                 params |-> SM2Parameters(0, 1, 250)]

UpdateReviewAfterAnswer ==
    /\ review.params.repetitions <= MaxRepetitions
    /\ review.params.interval_days <= MaxIntervalDays
    /\ \E score \in Scores :
         review' = [reviewed |-> TRUE, quality |-> quality_from_score(score),
                    previous |-> review.params,
                    params |-> update_review_after_answer(review.params, score)]
    /\ UNCHANGED <<index, metadata, index_file, metadata_file, last, io_errors, pc,
                   succeeded, chunker, context>>

NextSchedule == UpdateReviewAfterAnswer

SpecSchedule == InitSchedule /\ [][NextSchedule]_vars

(***************************************************************************)
(* What the claims speak of.                                               *)
(***************************************************************************)
\* row k of the vector store belongs to metadata[k], for every k
Aligned(rows, md) ==
    /\ Len(rows) = Len(md)
    /\ \A k \in 1..Len(rows) : rows[k].paired = md[k]

\* a vector the index may store: of the configured dimension and all finite
IsValidVector(e) ==
    /\ Len(e) = faiss_dimension
    /\ \A k \in 1..Len(e) : e[k].finite

ValidPositions(embeddings) == {p \in 1..Len(embeddings) : IsValidVector(embeddings[p])}
NValid(embeddings) == Cardinality(ValidPositions(embeddings))

\* the position of the j-th valid vector of the list
NthValid(embeddings, j) ==
    CHOOSE p \in ValidPositions(embeddings) :
        Cardinality({q \in ValidPositions(embeddings) : q <= p}) = j

\* the two files describe one index: both absent, or both whole and aligned
PairConsistent(idxf, mdf) ==
    \/ ~idxf.exists /\ ~mdf.exists
    \/ /\ idxf.exists /\ idxf.readable
       /\ mdf.exists /\ mdf.readable
       /\ Aligned(idxf.data, mdf.data)

\* what load_index gives on an instance just constructed, in this state
FreshLoad == load_index(None, <<>>, index_file, metadata_file)

\* C1: an index that is loaded has as many vectors as metadata records, and
\* row k was added together with metadata[k], whatever create, add, save and
\* load calls, failed ones included, came before.
C1_LoadedIndexAligned ==
    \A i \in Instances :
        ~index[i].is_none => Aligned(index[i].rows, metadata[i])

\* C2: create_index on equally long lists with at least one valid vector
\* returns True and leaves the instance holding exactly the valid vectors,
\* each with the metadata record at its position, in the order given.
C2_CreateKeepsValidPairs ==
    (/\ last.op = "create"
     /\ Len(last.embeddings) = Len(last.chunk_metadata)
     /\ NValid(last.embeddings) >= 1)
    => LET e == last.embeddings
           ix == index[last.inst]
           md == metadata[last.inst]
       IN  /\ last.ok
           /\ ~ix.is_none
           /\ ntotal(ix) = NValid(e)
           /\ Len(md) = NValid(e)
           /\ \A j \in 1..NValid(e) :
                /\ ix.rows[j].vec = normalize_L2(e[NthValid(e, j)])
                /\ ix.rows[j].paired = last.chunk_metadata[NthValid(e, j)]
                /\ md[j] = last.chunk_metadata[NthValid(e, j)]

\* a create_index that was given valid and invalid vectors and kept the valid
C2_Witness ==
    /\ last.op = "create"
    /\ last.ok
    /\ Len(last.embeddings) = Len(last.chunk_metadata)
    /\ NValid(last.embeddings) >= 1
    /\ NValid(last.embeddings) < Len(last.embeddings)
    /\ ntotal(index[last.inst]) = NValid(last.embeddings)

\* C3 as stated: create_index given no valid vector returns False, writes
\* neither file, and the instance is not loaded afterwards.
C3_NoValidLeavesUnloaded ==
    [][(last'.op = "create" /\ NValid(last'.embeddings) = 0)
       => /\ ~last'.ok
          /\ index_file' = index_file
          /\ metadata_file' = metadata_file
          /\ index'[last'.inst].is_none]_vars

\* C3 as amended: create_index given no valid vector returns False, writes
\* neither file, and leaves the instance's index and metadata as they were
\* (not loaded if it was not loaded, loaded with the same rows if it was).
C3_NoValidChangesNothing ==
    [][(last'.op = "create" /\ NValid(last'.embeddings) = 0)
       => /\ ~last'.ok
          /\ index_file' = index_file
          /\ metadata_file' = metadata_file
          /\ index' = index
          /\ metadata' = metadata]_vars

\* a create_index with no valid vector has failed on an instance that an
\* earlier call had loaded
C3_Witness ==
    /\ last.op = "create"
    /\ ~last.ok
    /\ last.embeddings # <<>>
    /\ NValid(last.embeddings) = 0
    /\ ~index[last.inst].is_none

\* C4: create_index called with lists of different lengths returns False and
\* stores nothing, in memory or on disk.
C4_LengthMismatchRejected ==
    [][(last'.op = "create" /\ Len(last'.embeddings) # Len(last'.chunk_metadata))
       => /\ ~last'.ok
          /\ index_file' = index_file
          /\ metadata_file' = metadata_file
          /\ index' = index
          /\ metadata' = metadata]_vars

\* C5: a create_index or add_embeddings whose save met an I/O error returns
\* False, and one that returned True left both files holding what the
\* instance holds.
C5_SaveFailureSurfaces ==
    last.op \in {"create", "add"}
    => /\ last.fault # "none" => ~last.ok
       /\ last.ok => /\ index_file = Written(index[last.inst].rows)
                     /\ metadata_file = Written(metadata[last.inst])

\* C6: at every moment the two files are both absent, or both present and
\* describing the same entries in the same order.
C6_FilesAreAPair == PairConsistent(index_file, metadata_file)

\* C9: after a create_index or add_embeddings that returned True, load_index
\* on a fresh instance of the collection returns True with the same vectors
\* and the same metadata records in the same order.
C9_RoundTrip ==
    (last.op \in {"create", "add"} /\ last.ok)
    => /\ FreshLoad.ok
       /\ FreshLoad.index.rows = index[last.inst].rows
       /\ FreshLoad.metadata = metadata[last.inst]

\* C10: load_index returns False whenever one of the two files is absent,
\* and then leaves the instance as it was: one that was not loaded stays not
\* loaded, with no vectors and no metadata.
C10_LoadNeedsBothFiles ==
    [][(last'.op = "load" /\ (~index_file.exists \/ ~metadata_file.exists))
       => /\ ~last'.ok
          /\ index' = index
          /\ metadata' = metadata
          /\ index[last'.inst].is_none
               => /\ index'[last'.inst] = None
                  /\ ntotal(index'[last'.inst]) = 0
                  /\ metadata'[last'.inst] = <<>>]_vars

\* load_index has failed on a fresh instance with the index file present and
\* the metadata file absent
C10_Witness ==
    /\ last.op = "load"
    /\ ~last.ok
    /\ index_file.exists
    /\ ~metadata_file.exists
    /\ index[last.inst] = None
    /\ metadata[last.inst] = <<>>

\* no call is in progress on any instance
Quiescent == \A i \in Instances : pc[i] = "idle"

\* C7: create, add and delete calls made at the same time through separate
\* instances leave what a serial order of them leaves: once they have all
\* returned, the persisted vectors and metadata are one aligned index (or
\* both files are gone).
C7_ConcurrentWritersSerialized ==
    Quiescent => PairConsistent(index_file, metadata_file)

\* C8: a load_index that runs while another instance creates, adds or
\* deletes, and returns True, has read one whole version of the index: the
\* vectors and the metadata it holds belong together.
C8_ReaderSeesWholeIndex ==
    (last.op = "load" /\ last.ok /\ pc[last.inst] = "idle")
    => Aligned(index[last.inst].rows, metadata[last.inst])

\* C11: on an instance on which no create_index and no load_index has
\* returned True, add_embeddings returns False and search returns [], and
\* neither changes the instance's index and metadata or the two files.
C11_UnloadedRejects ==
    [][(last'.op \in {"add", "search"} /\ ~succeeded[last'.inst])
       => /\ last'.op = "add" => ~last'.ok
          /\ last'.op = "search" => last'.results = <<>>
          /\ index' = index
          /\ metadata' = metadata
          /\ index_file' = index_file
          /\ metadata_file' = metadata_file]_vars

\* C12: get_stats on an instance just constructed reports not_loaded; an
\* instance whose index is set keeps it set, and reports loaded, through
\* every later add_embeddings, search, create_index, load_index and
\* delete_index call; delete_index leaves the instance's vectors and metadata
\* as they were, and a search right after it on an instance holding n
\* vectors with their metadata still returns min(k, n) results.
C12_LoadedStaysLoaded ==
    [][/\ (last.op \in {"init", "new"} /\ last'.op = "stats")
            => last'.results.status = "not_loaded"
       /\ \A i \in Instances :
            (~index[i].is_none /\ last'.op # "new")
            => /\ ~index'[i].is_none
               /\ get_stats(index'[i], metadata'[i]).status = "loaded"
       /\ (last'.op = "delete" /\ ~index[last'.inst].is_none)
            => /\ index' = index
               /\ metadata' = metadata
               /\ get_stats(index'[last'.inst], metadata'[last'.inst]).total_vectors
                    = ntotal(index[last'.inst])
       /\ (/\ last.op = "delete"
           /\ last'.op = "search"
           /\ last'.inst = last.inst
           /\ validate_embedding(last'.embeddings[1])
           /\ ~index[last.inst].is_none
           /\ Len(metadata[last.inst]) >= ntotal(index[last.inst]))
            => Len(last'.results) = Min(last'.k, ntotal(index[last.inst]))]_vars

\* a search has returned results on an instance whose two files a
\* delete_index had removed
C12_Witness ==
    /\ last.op = "search"
    /\ last.results # <<>>
    /\ ~index_file.exists
    /\ ~metadata_file.exists
    /\ get_stats(index[last.inst], metadata[last.inst]).status = "loaded"

C14_SearchReturnsTopK ==
    (/\ last.op = "search"
     /\ validate_embedding(last.embeddings[1])
     /\ last.k >= 1
     /\ ~index[last.inst].is_none
     /\ Aligned(index[last.inst].rows, metadata[last.inst]))
    => LET rows == index[last.inst].rows
           q == normalize_L2(last.embeddings[1])
           r == last.results
       IN  /\ Len(r) = Min(last.k, Len(rows))
           /\ \A a, b \in 1..Len(r) : a # b => r[a].row # r[b].row
           /\ \A a \in 1..Len(r) :
                /\ r[a].row \in 1..Len(rows)
                /\ r[a].metadata = metadata[last.inst][r[a].row]
                /\ r[a].chunk_id = rows[r[a].row].paired.chunk_id
                /\ r[a].score = InnerProduct(q, rows[r[a].row].vec)
           /\ \A a \in 1..(Len(r) - 1) : ScoreGE(r[a].score, r[a + 1].score)

\* search with k = 5 has returned 3 results of different scores from an
\* index of 3 vectors
C14_Witness ==
    /\ last.op = "search"
    /\ last.k = MaxK
    /\ ntotal(index[last.inst]) = 3
    /\ Aligned(index[last.inst].rows, metadata[last.inst])
    /\ Len(last.results) = 3
    /\ ~ScoreGE(last.results[3].score, last.results[1].score)

\* C15: retrieve_relevant_chunks returns [] whenever load_index on a fresh
\* instance of the collection fails (no file, the files deleted, one file
\* only, a file cut short), and leaves the two files and every instance as
\* they were.
C15_RetrieveDegradesToEmpty ==
    [][(last'.op = "retrieve" /\ ~load_index(None, <<>>, index_file, metadata_file).ok)
       => /\ last'.results = <<>>
          /\ index_file' = index_file
          /\ metadata_file' = metadata_file
          /\ index' = index
          /\ metadata' = metadata]_vars

\* retrieve_relevant_chunks has returned [] to a valid query with the
\* .index file present and the .metadata file absent
C15_Witness ==
    /\ last.op = "retrieve"
    /\ validate_embedding(last.embeddings[1])
    /\ last.results = <<>>
    /\ index_file.exists
    /\ index_file.readable
    /\ ~metadata_file.exists

\* the sections of the results, as create_context_from_chunks formats them
Sections == [j \in 1..Len(context.chunks) |->
                chunk_text(context.chunks[j], context.per_chunk_max_chars)]

\* C16: the string create_context_from_chunks returns, estimated as its
\* word count times 1.3, never exceeds max_tokens, and it is made of whole
\* formatted sections of the results: each is in it whole or not at all.
C16_ContextWithinBudget ==
    context.at = "returned"
    => /\ 13 * word_count(context.result) <= 10 * context.max_tokens
       /\ \E m \in 0..Len(context.chunks) :
            context.result = join(SubSeq(Sections, 1, m), 1)

\* C17: every chunk _create_chunks produces has token_count equal to
\* count_tokens of its content, whether the section was kept as one chunk
\* or split, chunks that start with an overlap prefix included.
C17_TokenCountIsCountTokens ==
    chunker.at = "returned"
    => \A c \in 1..Len(chunker.chunks) :
         chunker.chunks[c].token_count = count_tokens(chunker.chunks[c].content)

\* the chunks of the document that come from section j
ChunksOf(j) ==
    {c \in 1..Len(chunker.chunks) : chunker.chunks[c].heading = chunker.sections[j].heading}

\* C18: a section with more than chunk_size tokens comes out as at least 2
\* chunks, whatever its sentences are (one long sentence, no full stop).
C18_LargeSectionIsSplit ==
    chunker.at = "returned"
    => \A j \in 1..Len(chunker.sections) :
         count_tokens(chunker.sections[j].content) > chunk_size
         => Cardinality(ChunksOf(j)) >= 2

BeginsWith(text, prefix) ==
    /\ Len(prefix) <= Len(text)
    /\ SubSeq(text, 1, Len(prefix)) = prefix

\* the overlap text of a chunk: its last chunk_overlap tokens decoded, or
\* all of it when it has no more tokens than that
OverlapText(text) ==
    IF count_tokens(text) <= chunker.chunk_overlap THEN text
    ELSE decode(last_tokens(encode(text, 1), chunker.chunk_overlap), 1)

\* C19 as stated: with chunk_overlap > 0, every chunk of a split section
\* that has a predecessor begins with the overlap text of that predecessor.
C19_ChunkBeginsWithOverlap ==
    (chunker.at = "returned" /\ chunker.chunk_overlap > 0)
    => \A j \in 1..Len(chunker.sections) : \A c \in ChunksOf(j) :
         (c - 1) \in ChunksOf(j)
         => BeginsWith(chunker.chunks[c].content,
                       OverlapText(chunker.chunks[c - 1].content))

\* C19 as amended: every such chunk begins with the overlap text of its
\* predecessor less the white space the overlap text starts with, which the
\* strip() of the chunk's content removes.
C19_ChunkBeginsWithStrippedOverlap ==
    (chunker.at = "returned" /\ chunker.chunk_overlap > 0)
    => \A j \in 1..Len(chunker.sections) : \A c \in ChunksOf(j) :
         (c - 1) \in ChunksOf(j)
         => BeginsWith(chunker.chunks[c].content,
                       strip(OverlapText(chunker.chunks[c - 1].content)))

\* a section has been split into two chunks, the overlap text of the first
\* starting with a blank
C19_Witness ==
    /\ chunker.at = "returned"
    /\ chunker.chunk_overlap > 0
    /\ Len(chunker.sections) = 1
    /\ count_tokens(chunker.sections[1].content) > chunk_size
    /\ Len(chunker.chunks) = 2
    /\ OverlapText(chunker.chunks[1].content)[1] = " "

Sm2Easiness(q, old) ==
    LET e == old + 10 - (5 - q) * (8 + (5 - q) * 2)
    IN  IF e < 130 THEN 130 ELSE IF e > 300 THEN 300 ELSE e

\* C21: calculate_next_review with quality in 3..5 adds exactly 1 to
\* repetitions; interval_days becomes 1 when the new count is 1, 6 when it is
\* 2, and floor(previous interval_days x new easiness) otherwise; the new
\* easiness is the SM-2 formula's, clamped to [1.3, 3.0], so quality 5 raises
\* any easiness below 3.0.
C21_GoodQualityAdvances ==
    (review.reviewed /\ review.quality \in 3..5)
    => LET old == review.previous
           new == review.params
           e == Sm2Easiness(review.quality, old.easiness_factor)
       IN  /\ new.repetitions = old.repetitions + 1
           /\ new.easiness_factor = e
           /\ new.interval_days =
                 IF new.repetitions = 1 THEN 1
                 ELSE IF new.repetitions = 2 THEN 6
                 ELSE (old.interval_days * e) \div 100
           /\ (review.quality = 5 /\ old.easiness_factor < 300)
                 => new.easiness_factor > old.easiness_factor

\* the estimated cost of the first m formatted sections, in tenths of a
\* token: 1.3 to the word
RECURSIVE PrefixCost(_)
PrefixCost(m) == IF m = 0 THEN 0 ELSE PrefixCost(m - 1) + 13 * word_count(Sections[m])

\* C22: create_context_from_chunks returns exactly the longest prefix of the
\* results, in their order, whose cumulative estimated cost stays within
\* max_tokens: it stops at the first result that would exceed the budget and
\* takes no later one.
C22_LongestPrefixWithinBudget ==
    context.at = "returned"
    => \E m \in 0..Len(context.chunks) :
         /\ PrefixCost(m) <= 10 * context.max_tokens
         /\ m < Len(context.chunks) => PrefixCost(m + 1) > 10 * context.max_tokens
         /\ context.result = join(SubSeq(Sections, 1, m), 1)

\* C23: every chunk _create_chunks produces is size-bounded: neither its
\* token_count nor the token count of its content is more than chunk_size,
\* chunks that start with an overlap prefix and chunks that hold one long
\* sentence included.
C23_ChunkWithinChunkSize ==
    chunker.at = "returned"
    => \A c \in 1..Len(chunker.chunks) :
         /\ chunker.chunks[c].token_count <= chunk_size
         /\ count_tokens(chunker.chunks[c].content) <= chunk_size

\* C24: the chunk at position i of the output has chunk_index i, counting
\* from 0, whatever mix of single-chunk and split sections the document has.
C24_ChunkIndexIsPosition ==
    chunker.at = "returned"
    => \A c \in 1..Len(chunker.chunks) : chunker.chunks[c].chunk_index = c - 1

\* a document whose first section is one chunk and whose second section has
\* been split has come out as three chunks or more, the last with the last
\* index
C24_Witness ==
    /\ chunker.at = "returned"
    /\ Len(chunker.sections) = 2
    /\ Cardinality(ChunksOf(1)) = 1
    /\ Cardinality(ChunksOf(2)) >= 2
    /\ chunker.chunks[Len(chunker.chunks)].chunk_index = Len(chunker.chunks) - 1

\* the chunks that _split_section closed before the end of their section
ClosedChunks == {c \in 1..Len(chunker.chunks) : "overlap" \in DOMAIN chunker.chunks[c]}

\* the overlap prefix carried on from a closed chunk: the text _create_overlap
\* returned, without the blank it ends with
OverlapPrefix(c) ==
    SubSeq(chunker.chunks[c].overlap, 1, Len(chunker.chunks[c].overlap) - 1)

\* C28: the overlap prefix carried from a closed chunk into the next one
\* holds no more than chunk_overlap tokens when the closed chunk is longer
\* than chunk_overlap tokens; with chunk_overlap = 0 no text is carried over.
C28_OverlapWithinChunkOverlap ==
    chunker.at = "returned"
    => \A c \in ClosedChunks :
         /\ count_tokens(chunker.chunks[c].buffer) > chunker.chunk_overlap
              => count_tokens(OverlapPrefix(c)) <= chunker.chunk_overlap
         /\ chunker.chunk_overlap = 0 => OverlapPrefix(c) = <<>>

\* text is the sentences k + 1 .. m of S in their order, with one white
\* space character between each and the next
RECURSIVE IsRun(_, _, _, _)
IsRun(text, S, k, m) ==
    /\ k < m
    /\ BeginsWith(text, S[k + 1])
    /\ LET rest == SubSeq(text, Len(S[k + 1]) + 1, Len(text))
       IN  IF k + 1 = m THEN rest = <<>>
           ELSE /\ rest # <<>>
                /\ IsSpace(rest[1])
                /\ IsRun(SubSeq(rest, 2, Len(rest)), S, k + 1, m)

\* what the content of chunk c starts with on account of its predecessor in
\* the section: the overlap carried on from it, as strip() leaves it
CarriedPrefix(c) ==
    IF (c - 1) \in ClosedChunks
    THEN LET t == strip(chunker.chunks[c - 1].overlap \o <<"a">>)
         IN  SubSeq(t, 1, Len(t) - 1)
    ELSE <<>>

\* the chunks from position c to position end are, overlap prefixes left
\* aside, consecutive runs of the sentences of S after the first k, which
\* together are all of them
RECURSIVE AreRuns(_, _, _, _)
AreRuns(c, end, S, k) ==
    IF c > end THEN k = Len(S)
    ELSE LET content == chunker.chunks[c].content
             prefix == CarriedPrefix(c)
         IN  /\ BeginsWith(content, prefix)
             /\ \E m \in (k + 1)..Len(S) :
                  /\ IsRun(SubSeq(content, Len(prefix) + 1, Len(content)), S, k, m)
                  /\ AreRuns(c + 1, end, S, m)

\* C29: splitting a section neither loses nor merges text: overlap prefixes
\* left aside, each chunk is a run of consecutive sentences of the section
\* joined by white space, and the runs of the chunks in order are the
\* sentences of the section, none dropped, duplicated or reordered.
C29_ChunksAreSentenceRuns ==
    chunker.at = "returned"
    => \A j \in 1..Len(chunker.sections) :
         count_tokens(chunker.sections[j].content) > chunk_size
         => LET first == CHOOSE c \in ChunksOf(j) : \A o \in ChunksOf(j) : c <= o
                end == CHOOSE c \in ChunksOf(j) : \A o \in ChunksOf(j) : o <= c
            IN  AreRuns(first, end, split_into_sentences(chunker.sections[j].content), 0)

\* the rows and the metadata records a create_index call is to keep: the
\* valid vectors of the lists, normalized, each with the record at its position
KeptRows(embeddings, chunk_metadata) ==
    [j \in 1..NValid(embeddings) |->
        [vec |-> normalize_L2(embeddings[NthValid(embeddings, j)]),
         paired |-> chunk_metadata[NthValid(embeddings, j)]]]

KeptMetadata(embeddings, chunk_metadata) ==
    [j \in 1..NValid(embeddings) |-> chunk_metadata[NthValid(embeddings, j)]]

\* C25: a create_index that returns True on a collection that already has a
\* persisted index replaces it wholesale: the instance and the two files then
\* hold exactly the valid entries of this call, and none of the earlier ones.
C25_CreateReplacesWholesale ==
    [][(/\ last'.op = "create"
        /\ last'.ok
        /\ Len(last'.embeddings) = Len(last'.chunk_metadata)
        /\ index_file.exists
        /\ metadata_file.exists)
       => LET rows == KeptRows(last'.embeddings, last'.chunk_metadata)
              md == KeptMetadata(last'.embeddings, last'.chunk_metadata)
          IN  /\ index'[last'.inst] = IndexFlatIP(rows)
              /\ metadata'[last'.inst] = md
              /\ index_file' = Written(rows)
              /\ metadata_file' = Written(md)]_vars

\* the vector count and the metadata count get_stats reports differ on a
\* loaded instance
CountsDiffer(ix, md) ==
    /\ get_stats(ix, md).status = "loaded"
    /\ get_stats(ix, md).total_vectors # get_stats(ix, md).metadata_count

\* C26: a create_index or load_index that returns False leaves the
\* instance's index and metadata exactly as they were before the call; an
\* instance whose counts agreed does not come out of it reporting loaded
\* with a vector count different from its metadata count.
C26_FailureLeavesInstance ==
    [][(last'.op \in {"create", "load"} /\ ~last'.ok)
       => /\ index'[last'.inst] = index[last'.inst]
          /\ metadata'[last'.inst] = metadata[last'.inst]
          /\ ~CountsDiffer(index[last'.inst], metadata[last'.inst])
               => ~CountsDiffer(index'[last'.inst], metadata'[last'.inst])]_vars

\* C27: after a delete_index that returned True the collection has no
\* persisted index until a create_index succeeds: the next call, when it is
\* not a create_index, an add_embeddings through an instance loaded before
\* the delete included, does not write the two files back, and load_index on
\* a fresh instance still returns False.
C27_DeletedUntilCreate ==
    [][(/\ last.op = "delete"
        /\ last.ok
        /\ last'.op # "create")
       => /\ ~index_file'.exists
          /\ ~metadata_file'.exists
          /\ ~load_index(None, <<>>, index_file', metadata_file').ok]_vars

\* C30: from the parameters of a new card (repetitions 0, interval 1,
\* easiness 2.5), whatever scores update_review_after_answer is given, the
\* easiness stays within [1.3, 3.0], interval_days is at least 1, and it is
\* at least 6 whenever repetitions is at least 2.
C30_ScheduleWithinBounds ==
    /\ review.params.easiness_factor >= 130
    /\ review.params.easiness_factor <= 300
    /\ review.params.interval_days >= 1
    /\ review.params.repetitions >= 2 => review.params.interval_days >= 6

\* a card answered well three times or more running, its easiness brought
\* down to the minimum by barely correct answers
C30_Witness ==
    /\ review.reviewed
    /\ review.params.repetitions >= 3
    /\ review.params.easiness_factor = 130
    /\ review.previous.easiness_factor < 144

====
